---- MODULE Spec2Model ----
(***************************************************************************)
(* InfoSpace: the item catalog (IStorage with its MemStorage and           *)
(* DatabaseStorage implementations), the item routes that call it, and the *)
(* object-storage cascade of file items.                                   *)
(*                                                                         *)
(* Text is a sequence of one-character strings, so that substring search,  *)
(* case folding and SQL ILIKE patterns are computed as the code computes   *)
(* them.  null is the text Null.                                           *)
(***************************************************************************)
EXTENDS Integers, Sequences, FiniteSets, TLC

VARIABLES
    impl,       \* which IStorage implementation `storage` is: "mem" or "db"
    items,      \* the catalog: Map entries / table rows, in insertion order
    currentId,  \* MemStorage.currentId / the serial of items.id
    now,        \* the clock read by new Date(), Date.now() and defaultNow()
    blobs,      \* keys present in the object store
    created,    \* history: created[id] = the owner and type the item was created with
    last,       \* the last completed sequential request or client handler and its outcome
    reqs,       \* the requests in flight, one per slot (stepwise handlers)
    delCalls,   \* history: the objectStorage.delete calls issued so far
    fileStore   \* the in-memory fileStore of the routes that serve /files/:filename

vars ==
    <<impl, items, currentId, now, blobs, created, last, reqs, delCalls,
      fileStore>>

----------------------------------------------------------------------------
(* Bounds of the model *)

MaxItems == 2       \* ids handed out by create
MaxTime == 1        \* clock values 0..MaxTime
MaxSlots == 2       \* requests in flight at once

Users == {"A", "B"}
Ids == 1..MaxItems
Slots == 1..MaxSlots

Null == <<"null">>

\* what reading a property that the object does not have yields
Undefined == <<"undefined">>

----------------------------------------------------------------------------
(* Text *)

\* String.prototype.toLowerCase, one character
LowerChar(c) ==
    IF c = "A" THEN "a" ELSE IF c = "B" THEN "b" ELSE IF c = "C" THEN "c" ELSE c

\* String.prototype.toLowerCase
ToLower(s) == [i \in 1..Len(s) |-> LowerChar(s[i])]

\* String.prototype.includes
Includes(h, n) ==
    \E i \in 0..(Len(h) - Len(n)) : SubSeq(h, i + 1, i + Len(n)) = n

\* SQL LIKE on folded text: % is any run of characters, _ is any one character
RECURSIVE Like(_, _)
Like(t, p) ==
    IF p = <<>> THEN t = <<>>
    ELSE IF Head(p) = "%" THEN
        \/ Like(t, Tail(p))
        \/ t # <<>> /\ Like(Tail(t), p)
    ELSE IF Head(p) = "_" THEN t # <<>> /\ Like(Tail(t), Tail(p))
    ELSE t # <<>> /\ Head(t) = Head(p) /\ Like(Tail(t), Tail(p))

\* drizzle ilike(column, pattern): case-insensitive LIKE; NULL never matches
ILike(t, p) == t # Null /\ Like(ToLower(t), ToLower(p))

\* the template `%${searchQuery}%`
SearchPattern(q) == <<"%">> \o q \o <<"%">>

Reverse(s) == [i \in 1..Len(s) |-> s[Len(s) + 1 - i]]

----------------------------------------------------------------------------
(* Metadata text *)

\* JSON.stringify({ objectKey: fileKey })
ObjectKeyJson(key) == <<"{", "\"objectKey\":\"">> \o key \o <<"\"", "}">>

\* JSON.parse(item.metadata).objectKey: Null when the text is no such object
ParsedObjectKey(text) ==
    IF /\ Len(text) >= 4
       /\ text[1] = "{"
       /\ text[2] = "\"objectKey\":\""
       /\ text[Len(text) - 1] = "\""
       /\ text[Len(text)] = "}"
    THEN SubSeq(text, 3, Len(text) - 2)
    ELSE Null

\* the text JSON.stringify gives for an object with the one string property
\* whose opening token is keyTok
OneKeyJson(keyTok, v) == <<"{", keyTok>> \o v \o <<"\"", "}">>

KeyTokens ==
    { "\"objectKey\":\"", "\"storageKey\":\"", "\"url\":\"", "\"email\":\"" }

KeyName(keyTok) ==
    CASE keyTok = "\"objectKey\":\"" -> "objectKey"
      [] keyTok = "\"storageKey\":\"" -> "storageKey"
      [] keyTok = "\"url\":\"" -> "url"
      [] keyTok = "\"email\":\"" -> "email"

\* JSON.parse on the texts of the model: an object with no or with one
\* string property, the literal null, and a SyntaxError for anything else
JsonParse(text) ==
    IF text = <<"{", "}">> THEN [kind |-> "object", fields |-> {}]
    ELSE IF /\ Len(text) >= 4
            /\ text[1] = "{"
            /\ text[2] \in KeyTokens
            /\ text[Len(text) - 1] = "\""
            /\ text[Len(text)] = "}"
    THEN [kind |-> "object",
          fields |-> { <<KeyName(text[2]), SubSeq(text, 3, Len(text) - 2)>> }]
    ELSE IF text = <<"n", "u", "l", "l">> THEN [kind |-> "null", fields |-> {}]
    ELSE [kind |-> "throws", fields |-> {}]

\* a text that is falsy in a condition: null or the empty string
Falsy(text) == text = Null \/ text = <<>>

\* item.metadata ? JSON.parse(item.metadata) : fallback, followed by the read
\* of a property of the result: a SyntaxError of the parse and the TypeError
\* of reading a property of null both leave the handler
CardDecode(metadata, fallback) ==
    IF Falsy(metadata) THEN [raised |-> FALSE, payload |-> fallback]
    ELSE LET p == JsonParse(metadata)
         IN IF p.kind = "object"
            THEN [raised |-> FALSE, payload |-> p.fields]
            ELSE [raised |-> TRUE, payload |-> {}]

\* the { url: item.fileUrl || "" } a link without metadata falls back to
LinkFallback(it) ==
    { <<"url", IF Falsy(it.fileUrl) THEN <<>> ELSE it.fileUrl>> }

\* ItemCard.handleCopy: only contacts and links decode their metadata
HandleCopy(it) ==
    IF it.type = "contact" THEN CardDecode(it.metadata, {})
    ELSE IF it.type = "link" THEN CardDecode(it.metadata, LinkFallback(it))
    ELSE [raised |-> FALSE, payload |-> {}]

\* ItemCard.handleAction: only links decode their metadata
HandleAction(it) ==
    IF it.type = "link" THEN CardDecode(it.metadata, LinkFallback(it))
    ELSE [raised |-> FALSE, payload |-> {}]

\* the useEffect of ContactModal: the parse and the reads are inside a try
\* whose catch does nothing, so the form fields keep their initial ""
ModalDecode(it) ==
    IF Falsy(it.metadata) THEN [raised |-> FALSE, payload |-> {}]
    ELSE LET p == JsonParse(it.metadata)
         IN [raised |-> FALSE,
             payload |-> IF p.kind = "object" THEN p.fields ELSE {}]

\* `${userId}/${Date.now()}-${req.file.originalname}`
FileKey(userId, t, name) == <<userId, "/", ToString(t), "-">> \o name

----------------------------------------------------------------------------
(* Store contents *)

Vals(es) == [i \in 1..Len(es) |-> es[i].val]

\* Map.get(id): <<item>>, or <<>> for undefined
MemGet(es, id) ==
    IF \E i \in 1..Len(es) : es[i].key = id
    THEN <<es[CHOOSE i \in 1..Len(es) : es[i].key = id].val>>
    ELSE <<>>

\* insertItem.f: the property of the draft, undefined when it has none
Field(d, f) == IF f \in DOMAIN d THEN d[f] ELSE Undefined

\* x || null on text: the empty string, null and undefined are all falsy
OrNull(x) == IF x = <<>> \/ x = Null \/ x = Undefined THEN Null ELSE x

\* insertItem.tags || null: an array, even an empty one, is truthy
TagsOrNull(d) == IF "tags" \in DOMAIN d THEN d.tags ELSE Null

\* the item built by MemStorage.createItem
MemNewItem(id, userId, d, t) ==
    [id |-> id, userId |-> userId, title |-> d.title,
     content |-> OrNull(Field(d, "content")), type |-> d.type,
     fileUrl |-> OrNull(Field(d, "fileUrl")),
     fileName |-> OrNull(Field(d, "fileName")),
     fileSize |-> OrNull(Field(d, "fileSize")),
     mimeType |-> OrNull(Field(d, "mimeType")),
     tags |-> TagsOrNull(d), metadata |-> OrNull(Field(d, "metadata")),
     createdAt |-> t, updatedAt |-> t]

\* the value a nullable column takes on insert: the draft's, NULL without one
DbCol(d, f) == IF f \in DOMAIN d THEN d[f] ELSE Null

\* the row inserted by DatabaseStorage.createItem: { ...insertItem, userId };
\* tags has $default(() => []), created_at and updated_at have defaultNow()
DbNewItem(id, userId, d, t) ==
    [id |-> id, userId |-> userId, title |-> d.title,
     content |-> DbCol(d, "content"), type |-> d.type,
     fileUrl |-> DbCol(d, "fileUrl"), fileName |-> DbCol(d, "fileName"),
     fileSize |-> DbCol(d, "fileSize"), mimeType |-> DbCol(d, "mimeType"),
     tags |-> IF "tags" \in DOMAIN d THEN d.tags ELSE <<>>,
     metadata |-> DbCol(d, "metadata"), createdAt |-> t, updatedAt |-> t]

\* the item built by MemStorage.createItem of server/storage.ts, which takes
\* the draft alone: { ...insertItem, id, createdAt: now, updatedAt: now }
LegacyNewItem(id, d, t) ==
    [id |-> id, userId |-> Field(d, "userId"), title |-> d.title,
     content |-> Field(d, "content"), type |-> d.type,
     fileUrl |-> Field(d, "fileUrl"), fileName |-> Field(d, "fileName"),
     fileSize |-> Field(d, "fileSize"), mimeType |-> Field(d, "mimeType"),
     tags |-> Field(d, "tags"), metadata |-> Field(d, "metadata"),
     createdAt |-> t, updatedAt |-> t]

\* the spread the other way round, { ...updateData, ...existingItem }: the
\* stored values win over the draft's
MergeKeep(item, patch, t) ==
    [f \in DOMAIN item |-> IF f = "updatedAt" THEN t ELSE item[f]]

\* { ...existingItem, ...updateData, updatedAt: new Date() }
Merge(item, patch, t) ==
    [f \in DOMAIN item |->
        IF f = "updatedAt" THEN t
        ELSE IF f \in DOMAIN patch THEN patch[f] ELSE item[f]]

----------------------------------------------------------------------------
(* MemStorage *)

\* type && type !== 'all'
TypeGiven(type) == type # "" /\ type # "all"

\* the search predicate of MemStorage.getItems; query is already lower case
MemMatches(it, query) ==
    \/ Includes(ToLower(it.title), query)
    \/ it.content # Null /\ it.content # <<>> /\ Includes(ToLower(it.content), query)
    \/ it.fileName # Null /\ it.fileName # <<>> /\ Includes(ToLower(it.fileName), query)
    \/ \E i \in 1..Len(it.tags) : Includes(ToLower(it.tags[i]), query)

\* Array.prototype.sort with (a, b) => b.createdAt - a.createdAt: a stable
\* sort, so an element goes behind the elements that do not compare after it
RECURSIVE InsertDesc(_, _)
InsertDesc(sorted, x) ==
    IF sorted = <<>> THEN <<x>>
    ELSE IF Head(sorted).createdAt >= x.createdAt
         THEN <<Head(sorted)>> \o InsertDesc(Tail(sorted), x)
         ELSE <<x>> \o sorted

RECURSIVE SortDesc(_)
SortDesc(s) ==
    IF s = <<>> THEN <<>>
    ELSE InsertDesc(SortDesc(SubSeq(s, 1, Len(s) - 1)), s[Len(s)])

MemGetItems(es, userId, q, type) ==
    LET owned == SelectSeq(Vals(es), LAMBDA it : it.userId = userId)
        typed == IF TypeGiven(type)
                 THEN SelectSeq(owned, LAMBDA it : it.type = type)
                 ELSE owned
        found == IF q # <<>>
                 THEN SelectSeq(typed, LAMBDA it : MemMatches(it, ToLower(q)))
                 ELSE typed
    IN SortDesc(found)

\* Map.set(id, updatedItem) on an existing key keeps the entry's position
MemUpdateAll(es, id, patch, t) ==
    [i \in 1..Len(es) |->
        [key |-> es[i].key, val |-> Merge(es[i].val, patch, t)]]

MemUpdate(es, id, patch, t) ==
    [i \in 1..Len(es) |->
        IF es[i].key = id
        THEN [key |-> id, val |-> Merge(es[i].val, patch, t)]
        ELSE es[i]]

\* Map.delete(id)
MemDelete(es, id) == SelectSeq(es, LAMBDA e : e.key # id)

----------------------------------------------------------------------------
(* DatabaseStorage *)

\* or(ilike(title), ilike(content), ilike(fileName))
DbSearchClause(it, q) ==
    \/ ILike(it.title, SearchPattern(q))
    \/ ILike(it.content, SearchPattern(q))
    \/ ILike(it.fileName, SearchPattern(q))

\* the optional filters joined with or(...) instead of and(...)
DbWhereOr(it, userId, q, type) ==
    /\ it.userId = userId
    /\ \/ ~TypeGiven(type) /\ q = <<>>
       \/ TypeGiven(type) /\ it.type = type
       \/ q # <<>> /\ DbSearchClause(it, q)

\* and(...whereConditions)
DbWhere(it, userId, q, type) ==
    /\ it.userId = userId
    /\ TypeGiven(type) => it.type = type
    /\ q # <<>> => DbSearchClause(it, q)

\* ORDER BY created_at: every order of the rows that is ascending in
\* createdAt; SQL leaves the order of rows with equal keys open
AscOrders(s) ==
    LET n == Len(s)
        perms == {f \in [1..n -> 1..n] : \A i, j \in 1..n : f[i] = f[j] => i = j}
    IN {[i \in 1..n |-> s[f[i]]] : f \in
            {g \in perms : \A i \in 1..(n - 1) :
                s[g[i]].createdAt <= s[g[i + 1]].createdAt}}

\* the results DatabaseStorage.getItems can return when the query succeeds
DbGetItems(es, userId, q, type) ==
    LET rows == SelectSeq(Vals(es), LAMBDA it : DbWhere(it, userId, q, type))
    IN {Reverse(r) : r \in AscOrders(rows)}

\* const [item] = select where id = id: <<item>>, or <<>> for undefined
DbGet(es, id) ==
    LET rows == SelectSeq(Vals(es), LAMBDA it : it.id = id)
    IN IF rows = <<>> THEN <<>> ELSE <<Head(rows)>>

\* an UPDATE that writes the whole row from the draft: the columns the draft
\* does not name go back to NULL
DbUpdateReplace(es, id, patch, t) ==
    [i \in 1..Len(es) |->
        IF es[i].val.id = id
        THEN [key |-> es[i].key,
              val |-> [f \in DOMAIN es[i].val |->
                         IF f = "updatedAt" THEN t
                         ELSE IF f \in DOMAIN patch THEN patch[f]
                         ELSE IF f \in {"title", "content"} THEN Null
                         ELSE es[i].val[f]]]
        ELSE es[i]]

\* update ... set { ...updateData, updatedAt } where id = id
DbUpdate(es, id, patch, t) ==
    [i \in 1..Len(es) |->
        IF es[i].val.id = id
        THEN [key |-> es[i].key, val |-> Merge(es[i].val, patch, t)]
        ELSE es[i]]

\* delete from items where id = id
DbDelete(es, id) == SelectSeq(es, LAMBDA e : e.val.id # id)

\* result.rowCount of that delete
RowCount(es, id) == Len(es) - Len(DbDelete(es, id))

\* the insert of a row whose serial id is already the id of a row is rejected
\* by the primary key
PkTaken(es, id) ==
    impl = "db" /\ \E i \in 1..Len(es) : es[i].val.id = id

\* an update statement that throws, so that updateItem returns undefined from
\* its catch: the draft moves the row to an id another row has (primary
\* key), or carries a createdAt, which as JSON is no Date and cannot be
\* encoded for the timestamp column
DbUpdateThrows(es, id, patch) ==
    /\ impl = "db"
    /\ \/ "createdAt" \in DOMAIN patch
       \/ /\ "id" \in DOMAIN patch
          /\ DbGet(es, id) # <<>>
          /\ \E i \in 1..Len(es) :
                es[i].val.id = patch.id /\ es[i].val.id # id

\* the key DatabaseStorage.deleteItem hands to objectStorage.delete, Null if
\* none: item && item.metadata && item.type === 'file', then metadata.objectKey
CascadeKey(found) ==
    IF found = <<>> THEN Null
    ELSE IF found[1].metadata = Null \/ found[1].metadata = <<>> THEN Null
    ELSE IF found[1].type # "file" THEN Null
    ELSE LET k == ParsedObjectKey(found[1].metadata)
         IN IF k = Null \/ k = <<>> THEN Null ELSE k

----------------------------------------------------------------------------
(* Request inputs *)

\* bodies of POST /api/items/note; the second one fails noteSchema
NoteBodies ==
    { [title |-> <<"A">>, content |-> <<"c">>, tags |-> <<>>],
      [title |-> <<>>, content |-> <<"c">>, tags |-> <<>>] }

\* note bodies for the search: a title in upper case, and a word that is
\* only in the content or only in a tag
SearchNoteBodies ==
    { [title |-> <<"A">>, content |-> <<"c">>, tags |-> <<>>],
      [title |-> <<"c">>, content |-> <<"a">>, tags |-> << <<"b">> >>] }

\* originalname of the uploaded file
FileNames == { <<"a", "b">> }

\* bodies of PATCH /api/items/:id
Patches == { [type |-> "link"], [userId |-> "B"] }
TitlePatches == { [title |-> <<"c">>] }

\* bodies of PATCH /api/items/:id that carry the fields the store stamps
StampPatches ==
    { [id |-> MaxItems], [createdAt |-> MaxTime + 1], [updatedAt |-> 0],
      [title |-> <<"c">>] }

\* the place in the creation history of a serial id whose insert was rejected
NotCreated == [userId |-> "", type |-> "none"]

\* ?search= and ?type= ; <<>> and "" stand for an absent parameter
SearchTexts == { <<>>, <<"a">>, <<"b">>, <<"_">> }
TypeFilters == { "", "all", "note", "file" }

\* how a call of the object-storage client can end: done, a result wrapper
\* with ok === false, or a rejected promise
BlobOutcomes == { "ok", "errResult", "throws" }

\* outcomes of a database call the implementation allows
DbOutcomes == IF impl = "db" THEN BOOLEAN ELSE {TRUE}

\* noteSchema.safeParse: title and content are strings of length >= 1
NoteValid(b) == Len(b.title) >= 1 /\ Len(b.content) >= 1

\* the draft POST /api/items/note hands to createItem
NoteDraft(b) ==
    [title |-> b.title, content |-> b.content, type |-> "note",
     fileUrl |-> Null, fileName |-> Null, fileSize |-> Null, mimeType |-> Null,
     tags |-> b.tags, metadata |-> Null]

\* the draft POST /api/items/file hands to createItem
FileDraft(name, key) ==
    [title |-> name, content |-> Null, type |-> "file",
     fileUrl |-> <<"/api/files/">> \o key, fileName |-> name,
     fileSize |-> <<ToString(Len(name))>>, mimeType |-> <<"mime">>,
     tags |-> <<>>, metadata |-> ObjectKeyJson(key)]

----------------------------------------------------------------------------
(* Responses *)

Resp(op, caller, id, q, type, dbOk, status, body) ==
    [op |-> op, caller |-> caller, id |-> id, q |-> q, type |-> type,
     dbOk |-> dbOk, status |-> status, body |-> body]

NoResp == Resp("none", "", 0, <<>>, "", TRUE, 0, <<>>)

IdleReq ==
    [kind |-> "idle", pc |-> "idle", caller |-> "", id |-> 0, name |-> <<>>,
     key |-> Null, found |-> <<>>, rowCount |-> 0, blobCall |-> "none",
     status |-> 0, patch |-> <<>>, stamp |-> 0, applied |-> 0]

\* deleteItem without the inner try/catch: a throwing objectStorage.delete
\* reaches the outer catch, which returns false
DeleteResultUncaught(rowCount, o) == o # "throws" /\ rowCount > 0

\* what deleteItem returns once the row delete went through and the cascade
\* ended with outcome o ("none": no cascade): the inner try/catch keeps a
\* failed objectStorage.delete away from the outer catch, so it is
\* (result.rowCount ?? 0) > 0 whatever o is
DeleteResult(rowCount, o) == rowCount > 0

\* a delete route that answers 200 whatever deleteItem returned
DeleteStatusAlways(success) == 200

\* success ? 200 : 404 in DELETE /api/items/:id
DeleteStatus(success) == IF success THEN 200 ELSE 404

\* the object store after objectStorage.delete(key) ended with outcome o
BlobsAfterDelete(bs, key, o) == IF o = "ok" THEN bs \ {key} ELSE bs

\* the object store after objectStorage.uploadFromBytes(key, ...) ended with o
BlobsAfterUpload(bs, key, o) == IF o = "ok" THEN bs \cup {key} ELSE bs

\* whether the upload handler goes on to createItem after the upload call:
\* only a rejected promise reaches the catch; the returned result is not read
UploadContinues(o) == o # "throws"

\* createItem of the wired implementation, as a new catalog
StoreCreate(userId, d) ==
    Append(items,
        [key |-> currentId,
         val |-> IF impl = "mem"
                 THEN MemNewItem(currentId, userId, d, now)
                 ELSE IF impl = "legacy"
                 THEN LegacyNewItem(currentId, d, now)
                 ELSE DbNewItem(currentId, userId, d, now)])

----------------------------------------------------------------------------
(* Sequential requests: each handler runs to its response in one step *)

Tick ==
    /\ now < MaxTime
    /\ now' = now + 1
    /\ UNCHANGED <<impl, fileStore, items, currentId, blobs, created, last, reqs, delCalls>>

\* GET /api/items
ReqList(u, q, type) ==
    /\ \E ok \in DbOutcomes :
         \E body \in (IF impl = "mem" THEN {MemGetItems(items, u, q, type)}
                       ELSE IF ok THEN DbGetItems(items, u, q, type)
                       ELSE {<<>>}) :
            last' = Resp("list", u, 0, q, type, ok, 200, body)
    /\ UNCHANGED <<impl, fileStore, items, currentId, now, blobs, created, reqs, delCalls>>

\* GET /api/items/:id
ReqGet(u, id) ==
    /\ \E ok \in DbOutcomes :
         LET found == IF impl = "mem" THEN MemGet(items, id)
                      ELSE IF ok THEN DbGet(items, id) ELSE <<>>
         IN last' = Resp("get", u, id, <<>>, "", ok,
                         IF found = <<>> THEN 404 ELSE 200, found)
    /\ UNCHANGED <<impl, fileStore, items, currentId, now, blobs, created, reqs, delCalls>>

\* POST /api/items/note
ReqCreateNote(u, b) ==
    /\ currentId <= MaxItems
    /\ \E ok \in DbOutcomes :
         IF ~NoteValid(b) THEN
            /\ last' = Resp("create", u, 0, <<>>, "", TRUE, 400, <<>>)
            /\ UNCHANGED <<items, currentId, created>>
         ELSE IF ~ok THEN
            /\ last' = Resp("create", u, 0, <<>>, "", FALSE, 500, <<>>)
            /\ UNCHANGED <<items, currentId, created>>
         ELSE IF PkTaken(items, currentId) THEN
            /\ last' = Resp("create", u, 0, <<>>, "", FALSE, 500, <<>>)
            /\ currentId' = currentId + 1
            /\ created' = Append(created, NotCreated)
            /\ UNCHANGED items
         ELSE
            /\ items' = StoreCreate(u, NoteDraft(b))
            /\ currentId' = currentId + 1
            /\ created' = Append(created, [userId |-> u, type |-> "note"])
            /\ last' = Resp("create", u, currentId, <<>>, "", TRUE, 200,
                            <<items'[Len(items')].val>>)
    /\ UNCHANGED <<impl, fileStore, now, blobs, reqs, delCalls>>

\* PATCH /api/items/:id
ReqPatch(u, id, patch) ==
    /\ \E ok \in DbOutcomes :
         LET done == ok /\ ~DbUpdateThrows(items, id, patch)
             found == IF impl = "mem" THEN MemGet(items, id)
                      ELSE IF done THEN DbGet(items, id) ELSE <<>>
         IN IF found = <<>> THEN
                /\ last' = Resp("update", u, id, <<>>, "", done, 404, <<>>)
                /\ UNCHANGED items
            ELSE
                /\ items' = IF impl = "mem" THEN MemUpdate(items, id, patch, now)
                            ELSE DbUpdate(items, id, patch, now)
                /\ last' = Resp("update", u, id, <<>>, "", ok, 200,
                                <<Merge(found[1], patch, now)>>)
    /\ UNCHANGED <<impl, fileStore, currentId, now, blobs, created, reqs, delCalls>>

\* POST /api/items/file
ReqUploadFile(u, name) ==
    /\ currentId <= MaxItems
    /\ \E o \in BlobOutcomes, ok \in DbOutcomes :
         LET key == FileKey(u, now, name)
         IN /\ blobs' = BlobsAfterUpload(blobs, key, o)
            /\ IF UploadContinues(o) /\ ok /\ PkTaken(items, currentId) THEN
                    /\ last' = Resp("create", u, 0, <<>>, "", FALSE, 500, <<>>)
                    /\ currentId' = currentId + 1
                    /\ created' = Append(created, NotCreated)
                    /\ UNCHANGED items
               ELSE IF UploadContinues(o) /\ ok THEN
                    /\ items' = StoreCreate(u, FileDraft(name, key))
                    /\ currentId' = currentId + 1
                    /\ created' = Append(created, [userId |-> u, type |-> "file"])
                    /\ last' = Resp("create", u, currentId, <<>>, "", TRUE, 200,
                                    <<items'[Len(items')].val>>)
               ELSE
                    /\ last' = Resp("create", u, 0, <<>>, "",
                                    ~UploadContinues(o) \/ ok, 500, <<>>)
                    /\ UNCHANGED <<items, currentId, created>>
    /\ UNCHANGED <<impl, fileStore, now, reqs, delCalls>>

\* DELETE /api/items/:id
ReqDelete(u, id) ==
    /\ IF impl = "mem" THEN
            /\ items' = MemDelete(items, id)
            /\ last' = Resp("delete", u, id, <<>>, "", TRUE,
                            DeleteStatus(MemGet(items, id) # <<>>), <<>>)
            /\ UNCHANGED <<blobs, delCalls>>
       ELSE \E getOk \in BOOLEAN, delOk \in BOOLEAN, o \in BlobOutcomes :
            LET found == IF getOk THEN DbGet(items, id) ELSE <<>>
                key == CascadeKey(found)
            IN IF ~delOk THEN
                    /\ last' = Resp("delete", u, id, <<>>, "", FALSE,
                                    DeleteStatus(FALSE), <<>>)
                    /\ UNCHANGED <<items, blobs, delCalls>>
               ELSE
                    /\ items' = DbDelete(items, id)
                    /\ IF key # Null THEN
                            /\ blobs' = BlobsAfterDelete(blobs, key, o)
                            /\ delCalls' = [delCalls EXCEPT ![id] = @ + 1]
                       ELSE UNCHANGED <<blobs, delCalls>>
                    /\ last' = Resp("delete", u, id, <<>>, "", getOk,
                            DeleteStatus(DeleteResult(RowCount(items, id),
                                IF key # Null THEN o ELSE "none")), <<>>)
    /\ UNCHANGED <<impl, fileStore, currentId, now, created, reqs>>

Init ==
    /\ impl \in {"mem", "db"}
    /\ items = <<>>
    /\ currentId = 1
    /\ now = 0
    /\ blobs = {}
    /\ created = <<>>
    /\ last = NoResp
    /\ reqs = [s \in Slots |-> IdleReq]
    /\ delCalls = [id \in Ids |-> 0]
    /\ fileStore = {}

\* storage = new DatabaseStorage()
InitBlob == Init /\ impl = "db"

Next ==
    \/ Tick
    \/ \E u \in Users, t \in {"", "note"} : ReqList(u, <<>>, t)
    \/ \E u \in Users, id \in Ids : ReqGet(u, id)
    \/ \E u \in Users, b \in NoteBodies : ReqCreateNote(u, b)
    \/ \E u \in Users, id \in Ids, p \in Patches : ReqPatch(u, id, p)
    \/ \E u \in Users, id \in Ids : ReqDelete(u, id)

Spec == Init /\ [][Next]_vars

\* the search is exercised on one owner's catalog
NextSearch ==
    \/ Tick
    \/ \E q \in SearchTexts, t \in TypeFilters : ReqList("A", q, t)
    \/ \E b \in SearchNoteBodies : ReqCreateNote("A", b)
    \/ \E n \in FileNames : ReqUploadFile("A", n)
    \/ \E id \in Ids, p \in TitlePatches : ReqPatch("A", id, p)
    \/ \E id \in Ids : ReqDelete("A", id)

SpecSearch == Init /\ [][NextSearch]_vars

\* the item operations of one owner, with drafts that carry stamped fields
NextStore ==
    \/ Tick
    \/ \E b \in NoteBodies : ReqCreateNote("A", b)
    \/ \E n \in FileNames : ReqUploadFile("A", n)
    \/ \E id \in Ids : ReqGet("A", id)
    \/ \E id \in Ids, p \in StampPatches : ReqPatch("A", id, p)
    \/ \E id \in Ids : ReqDelete("A", id)

SpecStore == Init /\ [][NextStore]_vars

\* bodies of PATCH /api/items/:id that name the title, one of them empty
EmptyTitlePatches == { [title |-> <<>>], [title |-> <<"c">>] }

\* the routes that write titles: note and file creation and the update
NextTitle ==
    \/ Tick
    \/ \E b \in NoteBodies : ReqCreateNote("A", b)
    \/ \E n \in FileNames : ReqUploadFile("A", n)
    \/ \E id \in Ids, p \in EmptyTitlePatches : ReqPatch("A", id, p)

SpecTitle == Init /\ [][NextTitle]_vars

----------------------------------------------------------------------------
(* createItem on its own, for each implementation of it in the repository *)

\* drafts handed to createItem: the one the note route builds, one with the
\* required fields alone, one that carries an owner of its own, and one with
\* an empty content and no tags
Drafts ==
    { NoteDraft([title |-> <<"A">>, content |-> <<"c">>, tags |-> <<>>]),
      [title |-> <<"A">>, type |-> "note"],
      [title |-> <<"A">>, type |-> "link", fileUrl |-> <<"u">>,
       tags |-> <<>>, userId |-> "B"],
      [title |-> <<"A">>, type |-> "note", content |-> <<>>,
       metadata |-> Null] }

\* storage.createItem(userId, draft)
CreateItem(u, d) ==
    /\ currentId <= MaxItems
    /\ items' = StoreCreate(u, d)
    /\ currentId' = currentId + 1
    /\ created' = Append(created, [userId |-> u, type |-> d.type])
    /\ last' = Resp("create", u, currentId, <<>>, "", TRUE, 200,
                    <<items'[Len(items')].val>>)
    /\ UNCHANGED <<impl, fileStore, now, blobs, reqs, delCalls>>

InitCreate ==
    /\ impl \in {"mem", "db", "legacy"}
    /\ items = <<>>
    /\ currentId = 1
    /\ now = 0
    /\ blobs = {}
    /\ created = <<>>
    /\ last = NoResp
    /\ reqs = [s \in Slots |-> IdleReq]
    /\ delCalls = [id \in Ids |-> 0]
    /\ fileStore = {}

NextCreate ==
    \/ Tick
    \/ \E u \in Users, d \in Drafts : CreateItem(u, d)

SpecCreate == InitCreate /\ [][NextCreate]_vars

----------------------------------------------------------------------------
(* The places that decode an item's metadata *)

\* drafts of the three kinds of item that carry metadata, as their routes
\* build them
MetaDrafts ==
    { [title |-> <<"A">>, content |-> Null, type |-> "contact",
       fileUrl |-> Null, fileName |-> Null, fileSize |-> Null,
       mimeType |-> Null, tags |-> <<>>,
       metadata |-> OneKeyJson("\"email\":\"", <<"e">>)],
      [title |-> <<"A">>, content |-> Null, type |-> "link",
       fileUrl |-> <<"u">>, fileName |-> Null, fileSize |-> Null,
       mimeType |-> Null, tags |-> <<>>,
       metadata |-> OneKeyJson("\"url\":\"", <<"u">>)],
      FileDraft(<<"a">>, FileKey("A", 0, <<"a">>)) }

\* metadata texts a PATCH body can store: none, empty, an empty object, the
\* literal null, and text that is no JSON
MetaTexts ==
    { Null, <<>>, <<"{", "}">>, <<"n", "u", "l", "l">>, <<"n", "o">> }

MetaPatches == { [metadata |-> m] : m \in MetaTexts }

\* the item the client shows for the id, if any
Shown(id) == IF impl = "mem" THEN MemGet(items, id) ELSE DbGet(items, id)

\* the outcome of a client handler that ran on the item
Handled(op, id, out) == Resp(op, "A", id, <<>>, "", TRUE, 0, <<out>>)

\* the copy button of the item's card
CardCopy(id) ==
    /\ Shown(id) # <<>>
    /\ last' = Handled("copy", id, HandleCopy(Shown(id)[1]))
    /\ UNCHANGED <<impl, fileStore, items, currentId, now, blobs, created, reqs, delCalls>>

\* the action button of the item's card
CardAction(id) ==
    /\ Shown(id) # <<>>
    /\ last' = Handled("action", id, HandleAction(Shown(id)[1]))
    /\ UNCHANGED <<impl, fileStore, items, currentId, now, blobs, created, reqs, delCalls>>

\* the contact modal opened to edit the item
OpenContactModal(id) ==
    /\ Shown(id) # <<>>
    /\ last' = Handled("modal", id, ModalDecode(Shown(id)[1]))
    /\ UNCHANGED <<impl, fileStore, items, currentId, now, blobs, created, reqs, delCalls>>

NextDecode ==
    \/ \E d \in MetaDrafts : CreateItem("A", d)
    \/ \E id \in Ids, p \in MetaPatches : ReqPatch("A", id, p)
    \/ \E id \in Ids : CardCopy(id)
    \/ \E id \in Ids : CardAction(id)
    \/ \E id \in Ids : OpenContactModal(id)
    \/ \E id \in Ids : ReqDelete("A", id)

SpecDecode == Init /\ [][NextDecode]_vars

----------------------------------------------------------------------------
(* GET /api/files/*: the shapes objectStorage.downloadAsBytes answers in *)

\* elements of a value array: a number, the JSON form of a Buffer
\* { type: 'Buffer', data: [...] }, a Buffer itself, and a string
NumElem(n) == [k |-> "number", n |-> n, data |-> <<>>]
TaggedElem(data) == [k |-> "tagged", n |-> 0, data |-> data]
BufferElem(data) == [k |-> "buffer", n |-> 0, data |-> data]
StringElem == [k |-> "string", n |-> 0, data |-> <<>>]

\* value arrays
ValueArrays ==
    { <<>>,
      <<NumElem(0), NumElem(7)>>,
      <<NumElem(7)>>,
      <<TaggedElem(<<0, 7>>)>>,
      <<BufferElem(<<7, 0>>)>>,
      <<StringElem>> }

\* a response of the client: a Buffer, an object with or without the
\* properties ok and value, or something that is no object
FileResponse(shape, bytes, hasOk, ok, hasValue, isArray, value, message) ==
    [shape |-> shape, bytes |-> bytes, hasOk |-> hasOk, ok |-> ok,
     hasValue |-> hasValue, isArray |-> isArray, value |-> value,
     message |-> message]

DirectBuffer(bytes) ==
    FileResponse("buffer", bytes, FALSE, FALSE, FALSE, FALSE, <<>>, "")
WrappedValue(v) ==
    FileResponse("object", <<>>, TRUE, TRUE, TRUE, TRUE, v, "")
UnwrappedValue(v) ==
    FileResponse("object", <<>>, FALSE, FALSE, TRUE, TRUE, v, "")
WrappedFailure(message) ==
    FileResponse("object", <<>>, TRUE, FALSE, FALSE, FALSE, <<>>, message)

\* responses the handler never serves bytes from whatever the key: failures
FailureResponses == { WrappedFailure("gone"), WrappedFailure("") }

DownloadResponses ==
    { DirectBuffer(<<0, 7>>), DirectBuffer(<<>>) }
    \cup { WrappedValue(v) : v \in ValueArrays }
    \cup { UnwrappedValue(v) : v \in ValueArrays }
    \cup FailureResponses
    \cup { FileResponse("object", <<>>, TRUE, TRUE, FALSE, FALSE, <<>>, ""),
           FileResponse("object", <<>>, FALSE, FALSE, FALSE, FALSE, <<>>, ""),
           FileResponse("object", <<>>, FALSE, FALSE, TRUE, FALSE, <<>>, ""),
           FileResponse("other", <<>>, FALSE, FALSE, FALSE, FALSE, <<>>, "") }

\* typeof firstItem === 'number' with a check for a truthy firstItem in front
IsNonZeroNumber(e) == e.k = "number" /\ e.n # 0

\* typeof firstItem === 'number'
IsNumber(e) == e.k = "number"

\* firstItem && typeof firstItem === 'object' && 'type' in firstItem &&
\* firstItem.type === 'Buffer' && 'data' in firstItem: a Buffer itself has
\* neither property
IsTaggedBuffer(e) == e.k = "tagged"

\* bytes[0] && typeof bytes[0] === 'object' && 'data' in bytes[0]
HasData(e) == e.k = "tagged"

\* Buffer.from(array): every element as a number modulo 256, and 0 for what
\* is not a number
BufferFrom(a) ==
    [i \in 1..Len(a) |-> IF a[i].k = "number" THEN a[i].n % 256 ELSE 0]

Served(bytes) == [ok |-> TRUE, bytes |-> bytes, error |-> "", message |-> ""]
Thrown(error, message) ==
    [ok |-> FALSE, bytes |-> <<>>, error |-> error, message |-> message]

\* the extraction of fileBuffer from fileResponse, or the Error it throws
ExtractBytes(r) ==
    IF r.shape = "object" THEN
        IF r.hasOk /\ r.ok /\ r.hasValue THEN
            IF r.isArray /\ Len(r.value) > 0 THEN
                IF IsTaggedBuffer(r.value[1]) THEN Served(r.value[1].data)
                ELSE IF IsNumber(r.value[1]) THEN Served(BufferFrom(r.value))
                ELSE Thrown("Unexpected value format", "")
            ELSE Thrown("Empty or invalid value array", "")
        ELSE IF r.hasOk /\ ~r.ok THEN
            Thrown("Object Storage error",
                   IF r.message = "" THEN "Unknown error" ELSE r.message)
        ELSE IF r.hasValue /\ r.isArray THEN
            IF Len(r.value) > 0 /\ HasData(r.value[1])
            THEN Served(r.value[1].data)
            ELSE Served(BufferFrom(r.value))
        ELSE Thrown("Unexpected Object Storage response format", "")
    ELSE IF r.shape = "buffer" THEN Served(r.bytes)
    ELSE Thrown("Unexpected response format", "")

\* `%"objectKey":"${objectKey}"%`
ObjectKeyPattern(key) ==
    <<"%", "\"objectKey\":\"">> \o key \o <<"\"", "%">>

\* DatabaseStorage.getItemByObjectKey: the first row of an unordered select,
\* <<>> when no row matches
DbItemsByObjectKey(es, key) ==
    LET rows == {i \in 1..Len(es) :
                    ILike(es[i].val.metadata, ObjectKeyPattern(key))}
    IN IF rows = {} THEN { <<>> } ELSE { <<es[i].val>> : i \in rows }

\* the Content-Type header: item.mimeType when item && item.mimeType
ContentType(found) ==
    IF found # <<>> /\ ~Falsy(found[1].mimeType) THEN found[1].mimeType ELSE Null

\* the Content-Disposition header when item && item.fileName
Disposition(found, action) ==
    IF found # <<>> /\ ~Falsy(found[1].fileName)
    THEN <<IF action = "download" THEN "attachment" ELSE "inline">>
            \o found[1].fileName
    ELSE Null

\* what the handler answers: the bytes with their headers, or the 404 of its
\* catch with the message "File not found"; resp and thrown keep what the
\* client answered and what was thrown
FileAnswer(r, out, found, action) ==
    [resp |-> r, thrown |-> [error |-> out.error, message |-> out.message],
     bytes |-> out.bytes,
     message |-> IF out.ok THEN "" ELSE "File not found",
     contentType |-> IF out.ok THEN ContentType(found) ELSE Null,
     disposition |-> IF out.ok THEN Disposition(found, action) ELSE Null,
     contentLength |-> IF out.ok THEN Len(out.bytes) ELSE 0,
     cacheControl |-> IF out.ok THEN "no-cache" ELSE ""]

\* ?action= ; "" stands for an absent parameter
FileActions == { "", "download", "preview" }

\* GET /api/files/<key>
ReqDownload(u, key, action) ==
    /\ \E r \in (IF key \in blobs THEN DownloadResponses ELSE FailureResponses),
          ok \in DbOutcomes :
         LET out == ExtractBytes(r) IN
         \E found \in (IF out.ok /\ ok THEN DbItemsByObjectKey(items, key)
                        ELSE { <<>> }) :
            last' = Resp("download", u, 0, key, action, ok \/ ~out.ok,
                         IF out.ok THEN 200 ELSE 404,
                         <<FileAnswer(r, out, found, action)>>)
    /\ UNCHANGED <<impl, fileStore, items, currentId, now, blobs, created, reqs, delCalls>>

\* the keys a download asks for: the keys uploads store under
FileKeys == { FileKey("A", t, n) : t \in 0..MaxTime, n \in FileNames }

NextDownload ==
    \/ \E n \in FileNames : ReqUploadFile("A", n)
    \/ \E key \in FileKeys, a \in FileActions : ReqDownload("A", key, a)
    \/ \E id \in Ids : ReqDelete("A", id)

SpecDownload == InitBlob /\ [][NextDownload]_vars

\* originalname values that differ in case or hold a LIKE wildcard
WildFileNames == { <<"a", "b">>, <<"A", "b">>, <<"a", "_">> }

WildFileKeys == { FileKey("A", t, n) : t \in 0..MaxTime, n \in WildFileNames }

\* uploads under such names and the fetches of their keys
NextResolve ==
    \/ \E n \in WildFileNames : ReqUploadFile("A", n)
    \/ \E key \in WildFileKeys : ReqDownload("A", key, "download")

SpecResolve == InitBlob /\ [][NextResolve]_vars

----------------------------------------------------------------------------
(* The routes that keep uploaded files in the in-memory fileStore *)

\* originalname.split('.').pop(): what follows the last dot, the whole name
\* when it has none
RECURSIVE LastSegment(_)
LastSegment(name) ==
    IF \E i \in 1..Len(name) : name[i] = "."
    THEN LastSegment(Tail(name))
    ELSE name

\* Math.random().toString(36).substring(2)
Rands == { "r", "s" }

\* `${Date.now()}-${Math.random().toString(36).substring(2)}.${fileExtension}`
UniqueFilename(t, rnd, name) ==
    <<ToString(t), "-", rnd, ".">> \o LastSegment(name)

LocalFileNames == { <<"a", ".", "b">>, <<"c">> }

LocalFilenames ==
    { UniqueFilename(t, r, n) :
        t \in 0..MaxTime, r \in Rands, n \in LocalFileNames }

\* the draft POST /api/items/file hands to createItem in these routes
LocalFileDraft(name, filename) ==
    [title |-> name, content |-> Null, type |-> "file",
     fileUrl |-> <<"/files/">> \o filename, fileName |-> name,
     fileSize |-> <<ToString(Len(name))>>, mimeType |-> <<"mime">>,
     tags |-> <<>>, metadata |-> OneKeyJson("\"storageKey\":\"", filename)]

\* fileStore.set(uniqueFilename, { buffer, mimetype, originalname })
FileStoreSet(fs, filename, name) ==
    {f \in fs : f.filename # filename}
        \cup {[filename |-> filename, buffer |-> <<0, 7>>,
                mimetype |-> <<"mime">>, originalname |-> name]}

\* POST /api/items/file: the file goes into fileStore before createItem
ReqUploadLocal(u, name) ==
    /\ currentId <= MaxItems
    /\ \E rnd \in Rands, ok \in DbOutcomes :
         LET filename == UniqueFilename(now, rnd, name)
         IN /\ fileStore' = FileStoreSet(fileStore, filename, name)
            /\ IF ~ok THEN
                    /\ last' = Resp("create", u, 0, <<>>, "", FALSE, 500, <<>>)
                    /\ UNCHANGED <<items, currentId, created>>
               ELSE IF PkTaken(items, currentId) THEN
                    /\ last' = Resp("create", u, 0, <<>>, "", FALSE, 500, <<>>)
                    /\ currentId' = currentId + 1
                    /\ created' = Append(created, NotCreated)
                    /\ UNCHANGED items
               ELSE
                    /\ items' = StoreCreate(u, LocalFileDraft(name, filename))
                    /\ currentId' = currentId + 1
                    /\ created' = Append(created, [userId |-> u, type |-> "file"])
                    /\ last' = Resp("create", u, currentId, <<>>, "", TRUE, 200,
                                    <<items'[Len(items')].val>>)
    /\ UNCHANGED <<impl, now, blobs, reqs, delCalls>>

\* what GET /files/:filename answers for the entry of fileStore: res.send
\* sets the length of the buffer, and no header about caching is set
LocalAnswer(file) ==
    [resp |-> DirectBuffer(file.buffer),
     thrown |-> [error |-> "", message |-> ""],
     bytes |-> file.buffer, message |-> "",
     contentType |-> file.mimetype,
     disposition |-> <<"attachment">> \o file.originalname,
     contentLength |-> Len(file.buffer), cacheControl |-> ""]

\* what it answers when fileStore has no such entry
LocalNotFound ==
    [resp |-> FileResponse("other", <<>>, FALSE, FALSE, FALSE, FALSE, <<>>, ""),
     thrown |-> [error |-> "", message |-> ""],
     bytes |-> <<>>, message |-> "File not found",
     contentType |-> Null, disposition |-> Null,
     contentLength |-> 0, cacheControl |-> ""]

\* GET /files/:filename
ReqServeLocal(filename, action) ==
    /\ LET hit == {f \in fileStore : f.filename = filename}
       IN last' = IF hit = {}
                  THEN Resp("download", "", 0, filename, action, TRUE, 404,
                            <<LocalNotFound>>)
                  ELSE Resp("download", "", 0, filename, action, TRUE, 200,
                            <<LocalAnswer(CHOOSE f \in hit : TRUE)>>)
    /\ UNCHANGED <<impl, items, currentId, now, blobs, created, reqs, delCalls,
                   fileStore>>

NextLocal ==
    \/ \E n \in LocalFileNames : ReqUploadLocal("A", n)
    \/ \E f \in LocalFilenames, a \in FileActions : ReqServeLocal(f, a)
    \/ \E id \in Ids : ReqDelete("A", id)

SpecLocal == InitBlob /\ [][NextLocal]_vars

----------------------------------------------------------------------------
(* Requests in flight: the upload and the delete handler, one await per step *)

SetReq(s, r) == [reqs EXCEPT ![s] = r]

UploadsInFlight == Cardinality({s \in Slots : reqs[s].kind = "upload" /\ reqs[s].pc # "done"})

\* a request whose response has been sent: the handler's locals are gone, the
\* outcome stays readable until the slot takes the next request
Done(r, status) ==
    [IdleReq EXCEPT !.kind = r.kind, !.pc = "done", !.id = r.id,
                    !.rowCount = r.rowCount, !.blobCall = r.blobCall,
                    !.status = status]

\* a slot takes a request when it is free or its last response has been sent
Free(s) == reqs[s].kind = "idle" \/ reqs[s].pc = "done"

\* POST /api/items/file through await objectStorage.uploadFromBytes(fileKey, ...)
StartUpload(s, u, name) ==
    /\ Free(s)
    /\ currentId + UploadsInFlight <= MaxItems
    /\ \E o \in BlobOutcomes :
         LET key == FileKey(u, now, name)
             r == [IdleReq EXCEPT !.kind = "upload", !.caller = u,
                                  !.name = name, !.key = key, !.blobCall = o]
         IN /\ blobs' = BlobsAfterUpload(blobs, key, o)
            /\ reqs' = SetReq(s, IF UploadContinues(o)
                                 THEN [r EXCEPT !.pc = "row"]
                                 ELSE Done(r, 500))
    /\ UNCHANGED <<impl, fileStore, items, currentId, now, created, last, delCalls>>

\* await storage.createItem(userId, {...}) and the response
UploadRow(s) ==
    /\ reqs[s].kind = "upload" /\ reqs[s].pc = "row"
    /\ \E ok \in DbOutcomes :
         IF ok THEN
            /\ items' = StoreCreate(reqs[s].caller, FileDraft(reqs[s].name, reqs[s].key))
            /\ currentId' = currentId + 1
            /\ created' = Append(created, [userId |-> reqs[s].caller, type |-> "file"])
            /\ reqs' = SetReq(s, Done([reqs[s] EXCEPT !.id = currentId], 200))
         ELSE
            /\ reqs' = SetReq(s, Done(reqs[s], 500))
            /\ UNCHANGED <<items, currentId, created>>
    /\ UNCHANGED <<impl, fileStore, now, blobs, last, delCalls>>

\* DELETE /api/items/:id through const item = await this.getItem(id): a
\* failed query yields undefined
StartDelete(s, u, id) ==
    /\ Free(s)
    /\ \E ok \in DbOutcomes :
         reqs' = SetReq(s, [IdleReq EXCEPT !.kind = "delete", !.pc = "row",
                     !.caller = u, !.id = id,
                     !.found = IF ok THEN DbGet(items, id) ELSE <<>>])
    /\ UNCHANGED <<impl, fileStore, items, currentId, now, blobs, created, last, delCalls>>

\* a row delete whose failure is swallowed: the handler goes on to the blob
\* as if the statement had run
DelRowSwallow(s) ==
    /\ reqs[s].kind = "delete" /\ reqs[s].pc = "row"
    /\ \E ok \in DbOutcomes :
         /\ items' = IF ok THEN DbDelete(items, reqs[s].id) ELSE items
         /\ reqs' = SetReq(s,
                 LET n == IF ok THEN RowCount(items, reqs[s].id) ELSE 0
                     key == CascadeKey(reqs[s].found)
                 IN IF key # Null
                    THEN [reqs[s] EXCEPT !.pc = "blob", !.rowCount = n, !.key = key]
                    ELSE Done([reqs[s] EXCEPT !.rowCount = n],
                              DeleteStatus(DeleteResult(n, "none"))))
    /\ UNCHANGED <<impl, fileStore, currentId, now, blobs, created, last, delCalls>>

\* const result = await db.delete(items).where(eq(items.id, id)); a failure
\* goes to the outer catch, which returns false
DelRow(s) ==
    /\ reqs[s].kind = "delete" /\ reqs[s].pc = "row"
    /\ \E ok \in DbOutcomes :
         IF ~ok THEN
            /\ reqs' = SetReq(s, Done(reqs[s], DeleteStatus(FALSE)))
            /\ UNCHANGED items
         ELSE
            /\ items' = DbDelete(items, reqs[s].id)
            /\ reqs' = SetReq(s,
                 LET n == RowCount(items, reqs[s].id)
                     key == CascadeKey(reqs[s].found)
                 IN IF key # Null
                    THEN [reqs[s] EXCEPT !.pc = "blob", !.rowCount = n, !.key = key]
                    ELSE Done([reqs[s] EXCEPT !.rowCount = n],
                              DeleteStatus(DeleteResult(n, "none"))))
    /\ UNCHANGED <<impl, fileStore, currentId, now, blobs, created, last, delCalls>>

\* await this.objectStorage.delete(metadata.objectKey) inside the inner try
DelBlob(s) ==
    /\ reqs[s].kind = "delete" /\ reqs[s].pc = "blob"
    /\ \E o \in BlobOutcomes :
         /\ blobs' = BlobsAfterDelete(blobs, reqs[s].key, o)
         /\ reqs' = SetReq(s, Done([reqs[s] EXCEPT !.blobCall = o],
                     DeleteStatus(DeleteResult(reqs[s].rowCount, o))))
    /\ delCalls' = [delCalls EXCEPT ![reqs[s].id] = @ + 1]
    /\ UNCHANGED <<impl, fileStore, items, currentId, now, created, last>>

NextBlob ==
    \/ Tick
    \/ \E s \in Slots, n \in FileNames : StartUpload(s, "A", n)
    \/ \E s \in Slots : UploadRow(s)
    \/ \E s \in Slots, id \in Ids : StartDelete(s, "A", id)
    \/ \E s \in Slots : DelRow(s)
    \/ \E s \in Slots : DelBlob(s)

SpecBlob == InitBlob /\ [][NextBlob]_vars

\* deletes in flight over a catalog of files and notes
NextCascade ==
    \/ \E b \in NoteBodies : ReqCreateNote("A", b)
    \/ \E s \in Slots, n \in FileNames : StartUpload(s, "A", n)
    \/ \E s \in Slots : UploadRow(s)
    \/ \E s \in Slots, id \in Ids : StartDelete(s, "A", id)
    \/ \E s \in Slots : DelRow(s)
    \/ \E s \in Slots : DelBlob(s)

SpecCascade == InitBlob /\ [][NextCascade]_vars

----------------------------------------------------------------------------
(* Properties *)

BodyIds(body) == {body[i].id : i \in 1..Len(body)}

\* the ids getItems of the wired implementation returns on the current catalog
ListIds(u, q, t) ==
    IF impl = "mem" THEN BodyIds(MemGetItems(items, u, q, t))
    ELSE UNION {BodyIds(r) : r \in DbGetItems(items, u, q, t)}

Owned(u) == {i \in 1..Len(items) : items[i].val.userId = u}

\* the text t is present and contains q, case-insensitively
FieldHit(t, q) == t # Null /\ Includes(ToLower(t), ToLower(q))

\* an item's title, content or fileName contains q
ThreeFieldHit(it, q) ==
    FieldHit(it.title, q) \/ FieldHit(it.content, q) \/ FieldHit(it.fileName, q)

\* position of the item in insertion order
Pos(id) == CHOOSE i \in 1..Len(items) : items[i].val.id = id

\* C1: a list answered to a caller holds only items that were created under
\* that caller, whatever creates, updates and deletes came before.
C1_OwnerIsolation ==
    last.op = "list" =>
        \A i \in 1..Len(last.body) :
            created[last.body[i].id].userId = last.caller

\* C2: a get, update or delete request that succeeds was issued by the
\* principal the item was created under.
C2_OwnerScope ==
    (last.op \in {"get", "update", "delete"} /\ last.status = 200) =>
        created[last.id].userId = last.caller

\* C3: every stored item still has the type and the owner it was created with.
C3_TypeOwnerImmutable ==
    \A i \in 1..Len(items) :
        /\ items[i].val.type = created[items[i].key].type
        /\ items[i].val.userId = created[items[i].key].userId

\* C4: a search that the store answered returns exactly the caller's items
\* (of the requested type) whose title, content or fileName contains the
\* search text case-insensitively.
C4_SearchExact ==
    (last.op = "list" /\ last.dbOk /\ last.q # <<>>) =>
        BodyIds(last.body) =
            {items[i].val.id : i \in
                {j \in Owned(last.caller) :
                    /\ TypeGiven(last.type) => items[j].val.type = last.type
                    /\ ThreeFieldHit(items[j].val, last.q)}}

\* C5: a list that the store answered (a) holds only items of the type when
\* a type other than "all" is given, (b) holds all the caller's items when
\* neither a type nor a search text restricts it, (c) is the intersection of
\* the list for the type alone and the list for the search text alone, and
\* (d) holds every item of the caller one of whose title, content and
\* fileName contains the search text, when no type restricts it.
C5_TypeAndSearch ==
    (last.op = "list" /\ last.dbOk) =>
        LET got == BodyIds(last.body) IN
        /\ TypeGiven(last.type) =>
              \A i \in 1..Len(last.body) : last.body[i].type = last.type
        /\ (~TypeGiven(last.type) /\ last.q = <<>>) =>
              got = {items[i].val.id : i \in Owned(last.caller)}
        /\ got = ListIds(last.caller, <<>>, last.type)
                    \cap ListIds(last.caller, last.q, "")
        /\ (~TypeGiven(last.type) /\ last.q # <<>>) =>
              \A i \in Owned(last.caller) :
                 /\ FieldHit(items[i].val.title, last.q) => items[i].val.id \in got
                 /\ FieldHit(items[i].val.content, last.q) => items[i].val.id \in got
                 /\ FieldHit(items[i].val.fileName, last.q) => items[i].val.id \in got

\* C5 witness: a list with a type and a search text that returned an item
\* while another item of the caller passed only one of the two filters, and
\* an item was found through its fileName alone.
C5_Witness ==
    /\ last.op = "list" /\ last.dbOk /\ TypeGiven(last.type) /\ last.q # <<>>
    /\ Len(last.body) = 1
    /\ ~FieldHit(last.body[1].title, last.q)
    /\ ~FieldHit(last.body[1].content, last.q)
    /\ FieldHit(last.body[1].fileName, last.q)
    /\ \E i \in Owned(last.caller) :
          /\ items[i].val.type # last.type
          /\ ThreeFieldHit(items[i].val, last.q)

\* C6: a list is non-increasing in createdAt, and items with equal createdAt
\* stand in the order they were inserted in.
C6_ListOrder ==
    last.op = "list" =>
        \A i, j \in 1..Len(last.body) :
            i < j =>
                /\ last.body[i].createdAt >= last.body[j].createdAt
                /\ last.body[i].createdAt = last.body[j].createdAt =>
                      Pos(last.body[i].id) < Pos(last.body[j].id)

\* a delete request for id that has not yet returned
DeleteInFlight(id) ==
    \E s \in Slots :
        reqs[s].kind = "delete" /\ reqs[s].id = id /\ reqs[s].pc # "done"

\* the item id was created and its row is gone
Deleted(id) == id < currentId /\ DbGet(items, id) = <<>>

\* C7: no file item's key is handed to objectStorage.delete more than once,
\* and once a file item is deleted and no delete of it is still running,
\* its key was handed to objectStorage.delete exactly once.
C7_ExactlyOneBlobDelete ==
    \A id \in Ids :
        /\ delCalls[id] <= 1
        /\ (Deleted(id) /\ created[id].type = "file" /\ ~DeleteInFlight(id)) =>
              delCalls[id] = 1

\* a returned delete request that removed the row of a file item it had
\* looked up, and whose objectStorage.delete call failed
FailedCascade(s) ==
    /\ reqs[s].kind = "delete" /\ reqs[s].pc = "done"
    /\ reqs[s].rowCount > 0
    /\ created[reqs[s].id].type = "file"
    /\ reqs[s].blobCall \in {"errResult", "throws"}

\* C8: a delete that removed the row of a file item and whose blob delete
\* failed answers success; the item is then not found by get and is in no
\* list.
C8_BestEffortCascade ==
    \A s \in Slots :
        FailedCascade(s) =>
            /\ reqs[s].status = 200
            /\ DbGet(items, reqs[s].id) = <<>>
            /\ \A u \in Users, q \in SearchTexts, t \in TypeFilters :
                  reqs[s].id \notin ListIds(u, q, t)

\* C8 witness: such a delete has returned after objectStorage.delete threw,
\* and a blob is still in the object store.
C8_Witness ==
    \E s \in Slots :
        /\ FailedCascade(s)
        /\ reqs[s].blobCall = "throws"
        /\ blobs # {}

\* C9: a request during which a database call failed answers 500.
C9_FailuresReported ==
    (last.op # "none" /\ ~last.dbOk) => last.status = 500

\* C10: the storage key of every file item in the catalog is the key of a
\* blob in the object store.
C10_NoDanglingBlob ==
    \A i \in 1..Len(items) :
        items[i].val.type = "file" =>
            ParsedObjectKey(items[i].val.metadata) \in blobs

OptionalFields ==
    {"content", "fileUrl", "fileName", "fileSize", "mimeType", "tags", "metadata"}

----------------------------------------------------------------------------
(* Object Storage calls in flight: the call and its answer are two steps *)

\* POST /api/items/file up to await objectStorage.uploadFromBytes(fileKey, ...)
CallUpload(s, u, name) ==
    /\ Free(s)
    /\ currentId + UploadsInFlight <= MaxItems
    /\ reqs' = SetReq(s, [IdleReq EXCEPT !.kind = "upload", !.pc = "blob",
                                         !.caller = u, !.name = name,
                                         !.key = FileKey(u, now, name)])
    /\ UNCHANGED <<impl, fileStore, items, currentId, now, blobs, created, last, delCalls>>

\* Object Storage settles the uploadFromBytes promise
UploadAnswer(s) ==
    /\ reqs[s].kind = "upload" /\ reqs[s].pc = "blob"
    /\ \E o \in BlobOutcomes :
         /\ blobs' = BlobsAfterUpload(blobs, reqs[s].key, o)
         /\ reqs' = SetReq(s, IF UploadContinues(o)
                              THEN [reqs[s] EXCEPT !.pc = "row", !.blobCall = o]
                              ELSE Done([reqs[s] EXCEPT !.blobCall = o], 500))
    /\ UNCHANGED <<impl, fileStore, items, currentId, now, created, last, delCalls>>

\* GET /api/files/* up to await objectStorage.downloadAsBytes(fileKey)
CallDownload(s, u, key) ==
    /\ Free(s)
    /\ reqs' = SetReq(s, [IdleReq EXCEPT !.kind = "download", !.pc = "blob",
                                         !.caller = u, !.key = key])
    /\ UNCHANGED <<impl, fileStore, items, currentId, now, blobs, created, last, delCalls>>

\* Object Storage settles the downloadAsBytes promise and the handler runs
\* to res.end or to its catch; the item lookup in between only picks headers
DownloadAnswer(s) ==
    /\ reqs[s].kind = "download" /\ reqs[s].pc = "blob"
    /\ \E r \in (IF reqs[s].key \in blobs THEN DownloadResponses ELSE FailureResponses) :
         reqs' = SetReq(s, Done([reqs[s] EXCEPT !.blobCall = "ok"],
                                IF ExtractBytes(r).ok THEN 200 ELSE 404))
    /\ UNCHANGED <<impl, fileStore, items, currentId, now, blobs, created, last, delCalls>>

NextAwait ==
    \/ \E s \in Slots, n \in FileNames : CallUpload(s, "A", n)
    \/ \E s \in Slots : UploadAnswer(s)
    \/ \E s \in Slots : UploadRow(s)
    \/ \E s \in Slots, key \in FileKeys : CallDownload(s, "A", key)
    \/ \E s \in Slots : DownloadAnswer(s)
    \/ \E s \in Slots, id \in Ids : StartDelete(s, "A", id)
    \/ \E s \in Slots : DelRow(s)
    \/ \E s \in Slots : DelBlob(s)

\* the database answers every statement and the runtime resumes a handler
\* whose promise has settled; nothing in the handlers makes Object Storage
\* answer or gives up waiting for it
SpecAwait ==
    /\ InitBlob
    /\ [][NextAwait]_vars
    /\ \A s \in Slots : WF_vars(UploadRow(s)) /\ WF_vars(DelRow(s))

----------------------------------------------------------------------------
(* Updates in flight: PATCH /api/items/:id, one await per step *)

\* bodies of PATCH /api/items/:id that name one field each, and one that
\* names both
MergePatches ==
    { [title |-> <<"c">>], [content |-> <<"d">>],
      [title |-> <<"e">>, content |-> <<"f">>] }

\* the place of the next update among the updates applied so far
NextRank == 1 + Cardinality({t \in Slots : reqs[t].applied > 0})

\* an update whose response has been sent, with the draft it carried
PatchDone(r, status, rank) ==
    [r EXCEPT !.pc = "done", !.status = status, !.applied = rank]

\* PATCH /api/items/:id up to the await in storage.updateItem: updatedAt is
\* new Date() of this moment.  MemStorage.updateItem has no await between
\* its Map.get and its Map.set, so the whole update happens here;
\* DatabaseStorage.updateItem has sent its one UPDATE statement.
StartPatch(s, u, id, patch) ==
    /\ reqs[s].kind = "idle"
    /\ LET r == [IdleReq EXCEPT !.kind = "patch", !.pc = "row", !.caller = u,
                                !.id = id, !.patch = <<patch>>, !.stamp = now]
       IN IF impl = "mem" THEN
               IF MemGet(items, id) = <<>> THEN
                    /\ reqs' = SetReq(s, PatchDone(r, 404, 0))
                    /\ UNCHANGED items
               ELSE
                    /\ items' = MemUpdate(items, id, patch, now)
                    /\ reqs' = SetReq(s, PatchDone(r, 200, NextRank))
          ELSE
               /\ reqs' = SetReq(s, r)
               /\ UNCHANGED items
    /\ UNCHANGED <<impl, fileStore, currentId, now, blobs, created, last, delCalls>>

\* the database runs the UPDATE statement: it sets the columns the draft
\* names and updated_at on the row as it is now
PatchRow(s) ==
    /\ reqs[s].kind = "patch" /\ reqs[s].pc = "row"
    /\ \E ok \in DbOutcomes :
         LET id == reqs[s].id
             patch == reqs[s].patch[1]
         IN IF ok /\ ~DbUpdateThrows(items, id, patch) /\ DbGet(items, id) # <<>>
            THEN /\ items' = DbUpdate(items, id, patch, reqs[s].stamp)
                 /\ reqs' = SetReq(s, PatchDone(reqs[s], 200, NextRank))
            ELSE /\ reqs' = SetReq(s, PatchDone(reqs[s], 404, 0))
                 /\ UNCHANGED items
    /\ UNCHANGED <<impl, fileStore, currentId, now, blobs, created, last, delCalls>>

NextPatch ==
    \/ Tick
    \/ \E d \in MetaDrafts : CreateItem("A", d)
    \/ \E s \in Slots, id \in Ids, p \in MergePatches : StartPatch(s, "A", id, p)
    \/ \E s \in Slots : PatchRow(s)

SpecPatch == Init /\ [][NextPatch]_vars

----------------------------------------------------------------------------
(* Properties, continued *)

\* C11: the item a create returns is the item it stored; its owner is the
\* owner argument whatever the draft carries, its createdAt equals its
\* updatedAt, and none of its optional fields is undefined.
C11_CreateContract ==
    (last.op = "create" /\ last.status = 200) =>
        LET it == last.body[1] IN
        /\ MemGet(items, last.id) = <<it>>
        /\ it.userId = last.caller
        /\ it.createdAt = it.updatedAt
        /\ \A f \in OptionalFields : it[f] # Undefined

\* C12: no two items of the catalog share an id, every id in the catalog was
\* handed out by a create, and a create hands out an id greater than every
\* id in the catalog before it.
C12_FreshIds ==
    /\ \A i, j \in 1..Len(items) :
          i # j => items[i].val.id # items[j].val.id
    /\ \A i \in 1..Len(items) : items[i].val.id < currentId
    /\ (last.op = "create" /\ last.status = 200) =>
          \A i \in 1..Len(items) :
             items[i].key # last.id => items[i].val.id < last.id

\* C13: an item that stays in the catalog keeps its id and its createdAt
\* through every step, whatever the draft of an update carries.
C13_IdCreatedAtImmutable ==
    [][\A i \in 1..Len(items) : \A j \in 1..Len(items') :
          items'[j].key = items[i].key =>
             /\ items'[j].val.id = items[i].val.id
             /\ items'[j].val.createdAt = items[i].val.createdAt]_vars

\* C14: a successful update returns and stores an item whose updatedAt is the
\* current time even when the draft carries an updatedAt; no step lowers an
\* item's updatedAt; and after every step each item's updatedAt is at least
\* its createdAt.
C14_UpdatedAtMonotone ==
    [][/\ (last' # last /\ last'.op = "update" /\ last'.status = 200) =>
             /\ last'.body[1].updatedAt = now
             /\ \E j \in 1..Len(items') : items'[j].val = last'.body[1]
       /\ \A i \in 1..Len(items) : \A j \in 1..Len(items') :
             items'[j].key = items[i].key =>
                items'[j].val.updatedAt >= items[i].val.updatedAt
       /\ \A j \in 1..Len(items') :
             items'[j].val.updatedAt >= items'[j].val.createdAt]_vars

\* no item of the catalog is stored under the id or carries it
Unknown(id) ==
    \A i \in 1..Len(items) : items[i].key # id /\ items[i].val.id # id

C16_DecodeNeverRaises ==
    /\ last.op \in {"copy", "action", "modal"} => ~last.body[1].raised
    /\ last.op = "delete" => last.status \in {200, 404}

\* the answer of the last download and the response of the client it is for
Answer == last.body[1]

\* the answer the handler gives when no blob is found under the key
IsNotFoundAnswer == last.status = 404 /\ Answer.message = "File not found"

\* the value of the response is an array whose first element has kind k
FirstIs(r, k) ==
    /\ r.shape = "object" /\ r.hasValue /\ r.isArray
    /\ ~(r.hasOk /\ ~r.ok)
    /\ Len(r.value) > 0
    /\ r.value[1].k = k

\* a response of none of the shapes that carry bytes or a wrapped failure
Unrecognised(r) ==
    /\ r.shape # "buffer"
    /\ ~(r.shape = "object" /\ r.hasOk /\ ~r.ok)
    /\ \A k \in {"number", "tagged", "buffer"} : ~FirstIs(r, k)

\* C17: a download the client answered with a wrapped failure serves no
\* bytes, and its answer carries the wrapped message and is not the answer
\* given when nothing is found under the key.
C17_WrappedFailure ==
    (last.op = "download" /\ Answer.resp.shape = "object"
        /\ Answer.resp.hasOk /\ ~Answer.resp.ok) =>
        /\ last.status # 200
        /\ Answer.bytes = <<>>
        /\ ~IsNotFoundAnswer
        /\ Answer.resp.message # "" => Answer.message = Answer.resp.message

\* C18: a download the client answered in an unrecognised shape - an empty
\* value array, no value, a value that is no array of bytes or buffers -
\* is never answered with success.
C18_MalformedNeverBytes ==
    (last.op = "download" /\ Unrecognised(Answer.resp)) => last.status # 200

\* C19: when the first element of the value array is a Buffer or the tagged
\* form of one, with or without the wrapper, the download serves exactly
\* the bytes of that element.
C19_NestedBuffer ==
    (last.op = "download"
        /\ (FirstIs(Answer.resp, "buffer") \/ FirstIs(Answer.resp, "tagged"))) =>
        /\ last.status = 200
        /\ Answer.bytes = Answer.resp.value[1].data

\* C20: a response that is a Buffer is served unchanged, and a non-empty
\* value array of numbers, with or without the wrapper, is served as exactly
\* those bytes, a first byte 0 included.
C20_DirectAndFlat ==
    last.op = "download" =>
        /\ Answer.resp.shape = "buffer" =>
              last.status = 200 /\ Answer.bytes = Answer.resp.bytes
        /\ (FirstIs(Answer.resp, "number")
              /\ \A i \in 1..Len(Answer.resp.value) :
                    Answer.resp.value[i].k = "number") =>
              /\ last.status = 200
              /\ Len(Answer.bytes) = Len(Answer.resp.value)
              /\ \A i \in 1..Len(Answer.bytes) :
                    Answer.bytes[i] = Answer.resp.value[i].n

\* C20 witness: a wrapped value array of two numbers whose first is 0 has
\* been served as two bytes.
C20_Witness ==
    /\ last.op = "download" /\ last.status = 200
    /\ Answer.resp.hasOk
    /\ FirstIs(Answer.resp, "number")
    /\ Answer.resp.value[1].n = 0
    /\ Answer.bytes = <<0, 7>>

\* the storage key the item's metadata carries, Null without one
StorageKeyOf(it) ==
    IF Falsy(it.metadata) THEN Null
    ELSE LET p == JsonParse(it.metadata)
             ks == {f \in p.fields : f[1] \in {"objectKey", "storageKey"}}
         IN IF ks = {} THEN Null ELSE (CHOOSE f \in ks : TRUE)[2]

\* the file items of the catalog whose storage key is the key
ItemsOfKey(key) ==
    {i \in 1..Len(items) :
        items[i].val.type = "file" /\ StorageKeyOf(items[i].val) = key}

\* C21: a blob fetch that serves bytes for the key of a file item of the
\* catalog, the item lookup not having failed, answers with the disposition
\* attachment for action=download and inline otherwise, followed by the
\* item's fileName, with the item's mimeType as content type, with the
\* number of bytes served as content length, and with caching disabled.
C21_DeliveryHeaders ==
    (last.op = "download" /\ last.status = 200 /\ last.dbOk
        /\ ItemsOfKey(last.q) # {}) =>
        /\ \E i \in ItemsOfKey(last.q) :
              /\ Answer.disposition =
                    <<IF last.type = "download" THEN "attachment" ELSE "inline">>
                        \o items[i].val.fileName
              /\ Answer.contentType = items[i].val.mimeType
        /\ Answer.contentLength = Len(Answer.bytes)
        /\ Answer.cacheControl = "no-cache"

\* C22: a blob fetch serves bytes only when a blob is stored under the key
\* and a file item of the catalog carries the key; otherwise it answers not
\* found.
C22_NotFoundUnlessBoth ==
    last.op = "download" =>
        IF last.q \in blobs /\ ItemsOfKey(last.q) # {}
        THEN TRUE
        ELSE IsNotFoundAnswer /\ Answer.bytes = <<>>

\* the stored item with this id, <<item>> or <<>>
StoredItem(i) == IF impl = "mem" THEN MemGet(items, i) ELSE DbGet(items, i)

\* the updates of item i that have been applied
AppliedOn(i) ==
    {s \in Slots : reqs[s].kind = "patch" /\ reqs[s].applied > 0 /\ reqs[s].id = i}

PatchOf(s) == reqs[s].patch[1]

\* the applied updates of item i whose draft names field f
Namers(i, f) == {s \in AppliedOn(i) : f \in DOMAIN PatchOf(s)}

LastNamer(i, f) ==
    CHOOSE s \in Namers(i, f) : \A t \in Namers(i, f) : reqs[t].applied <= reqs[s].applied

C26_UpdateFrame ==
    [][\A s \in Slots :
         (reqs[s].applied = 0 /\ reqs'[s].applied > 0) =>
             LET id == reqs'[s].id
                 p  == reqs'[s].patch[1]
             IN /\ Len(items') = Len(items)
                /\ \A k \in 1..Len(items) :
                      IF items[k].val.id = id THEN
                           /\ items'[k].key = items[k].key
                           /\ \A f \in DOMAIN p : items'[k].val[f] = p[f]
                           /\ \A f \in DOMAIN items[k].val \ (DOMAIN p \cup {"updatedAt"}) :
                                 items'[k].val[f] = items[k].val[f]
                      ELSE items'[k] = items[k]]_vars

\* a link whose title alone was updated, with its url metadata and its
\* address intact, next to a second item
C26_Witness ==
    /\ Len(items) = 2
    /\ \E s \in Slots :
          /\ reqs[s].kind = "patch" /\ reqs[s].applied = 1
          /\ PatchOf(s) = [title |-> <<"c">>]
          /\ StoredItem(reqs[s].id) # <<>>
          /\ StoredItem(reqs[s].id)[1].type = "link"
          /\ StoredItem(reqs[s].id)[1].title = <<"c">>
          /\ StoredItem(reqs[s].id)[1].metadata = OneKeyJson("\"url\":\"", <<"u">>)
          /\ StoredItem(reqs[s].id)[1].fileUrl = <<"u">>
    /\ \A t \in Slots : reqs[t].applied <= 1

\* C29: two applied updates of one item whose drafts name disjoint fields
\* both show in the stored item, in whichever order they were applied: each
\* of their fields holds the draft's value unless a still later update named
\* it again.
C29_DisjointMerge ==
    \A i \in Ids : \A s1 \in AppliedOn(i), s2 \in AppliedOn(i) :
        (/\ s1 # s2
         /\ DOMAIN PatchOf(s1) \cap DOMAIN PatchOf(s2) = {}
         /\ StoredItem(i) # <<>>) =>
            \A s \in {s1, s2} : \A f \in DOMAIN PatchOf(s) :
                \/ StoredItem(i)[1][f] = PatchOf(s)[f]
                \/ \E t \in AppliedOn(i) :
                      reqs[t].applied > reqs[s].applied /\ f \in DOMAIN PatchOf(t)

\* a title update and a content update of one item that were in flight
\* together and reached the database in the opposite order: both are stored
C29_Witness ==
    /\ impl = "db"
    /\ \E i \in Ids : \E s1 \in AppliedOn(i), s2 \in AppliedOn(i) :
          /\ reqs[s1].applied = 1 /\ reqs[s2].applied = 2
          /\ reqs[s2].stamp < reqs[s1].stamp
          /\ PatchOf(s1) = [content |-> <<"d">>]
          /\ PatchOf(s2) = [title |-> <<"c">>]
          /\ StoredItem(i) # <<>>
          /\ StoredItem(i)[1].title = <<"c">>
          /\ StoredItem(i)[1].content = <<"d">>

\* C24: every successful upload got a key of its own: no two file items of
\* the catalog reference the same storage key, so that the delete of one
\* cannot remove the blob of another.
C24_UniqueKeys ==
    \A i \in 1..Len(items), j \in 1..Len(items) :
        (i # j /\ items[i].val.type = "file" /\ items[j].val.type = "file") =>
            StorageKeyOf(items[i].val) # StorageKeyOf(items[j].val)

\* C25: every request that is waiting for Object Storage (an upload, a blob
\* fetch, the blob call of a cascading delete) eventually sends its
\* response, whether or not Object Storage ever answers.
C25_BoundedRoundTrips ==
    \A s \in Slots : (reqs[s].pc = "blob") ~> (reqs[s].pc = "done")

\* C27: every stored item has a non-empty title: the routes reject a draft
\* whose title is missing or empty and leave the catalog as it was.
C27_NonEmptyTitle ==
    \A i \in 1..Len(items) :
        items[i].val.title \notin {<<>>, Null, Undefined}

\* C28: objectStorage.delete is called for item i only by a delete of i
\* whose lookup found a file item and whose row delete has run without
\* error: when the call is made the row is gone from the catalog, and no
\* call is made for a note or after a failed row delete.
C28_CascadeOrdering ==
    [][\A i \in Ids :
         delCalls'[i] # delCalls[i] =>
             /\ DbGet(items, i) = <<>>
             /\ \E s \in Slots :
                   /\ reqs[s].kind = "delete" /\ reqs[s].id = i
                   /\ reqs[s].pc = "blob" /\ reqs'[s].pc = "done"
                   /\ reqs[s].found # <<>>
                   /\ reqs[s].found[1].type = "file"]_vars

\* a delete of a file item that removed the row and then called the blob
\* store, next to a delete of a note that made no blob call
C28_Witness ==
    \E s \in Slots, t \in Slots :
        /\ reqs[s].kind = "delete" /\ reqs[s].pc = "done"
        /\ reqs[s].rowCount = 1 /\ reqs[s].blobCall = "ok"
        /\ delCalls[reqs[s].id] = 1
        /\ DbGet(items, reqs[s].id) = <<>>
        /\ reqs[t].kind = "delete" /\ reqs[t].pc = "done"
        /\ reqs[t].rowCount = 1 /\ reqs[t].blobCall = "none"
        /\ delCalls[reqs[t].id] = 0

\* C30: the file name a blob fetch for key k sends in Content-Disposition is
\* the fileName of a catalog item whose storage key is exactly k, never that
\* of an item whose key only matches k as a pattern or up to letter case.
C30_ExactResolution ==
    (last.op = "download" /\ last.status = 200 /\ Answer.disposition # Null) =>
        \E i \in ItemsOfKey(last.q) :
            Answer.disposition =
                <<IF last.type = "download" THEN "attachment" ELSE "inline">>
                    \o items[i].val.fileName

====
